---- MODULE Spec2Model ----
(***************************************************************************)
(* RetroChain SQL indexer (tools/sql_indexer.py), its SQLite store and the *)
(* read side (tools/indexer_api.py), as a state machine.                   *)
(*                                                                         *)
(* The store is the four tables of SqlIndexer._migrate, each a set of      *)
(* rows.  `db` is what is committed (what any other connection reads),     *)
(* `wdb` is the writer connection's open transaction (NoTx outside one).   *)
(* The worker is SqlIndexer.run_forever / index_height, one step per RPC   *)
(* call or SQL statement, any of which may raise.                          *)
(***************************************************************************)
EXTENDS Integers, Sequences, FiniteSets, TLC

VARIABLES
    chain,          \* the chain behind the RPC: height -> block payload
    meta,           \* table meta: [chain_id, last_indexed_height]
    db,             \* committed tables blocks, txs, events (+ sqlite_sequence)
    wdb,            \* the writer's open transaction, or NoTx
    pc,             \* the worker's position in run_forever / index_height
    start_height,   \* cfg.start_height of this run
    stop_event,     \* the threading.Event handed to run_forever
    chain_id,       \* run_forever's local chain_id
    next_height,    \* run_forever's local next_height
    latest,         \* run_forever's local latest
    i,              \* index_height: index of the tx being written
    j,              \* index_height: index of the tx event being written
    ev_id,          \* index_height's local ev_id
    log,            \* the log line emitted by the last step ("" if none)
    slept,          \* the sleep made by the last step, in tenths of a second
    api,            \* the API handler: its position in do_GET, the parsed
                    \* parameters, its connection and the last response
    server          \* the API process: main()'s position, its exit code and
                    \* httpd.cors_allowed_origins

vars == <<chain, meta, db, wdb, pc, start_height, stop_event, chain_id,
          next_height, latest, i, j, ev_id, log, slept, api, server>>

(***************************************************************************)
(* Bounds                                                                  *)
(***************************************************************************)
MaxHeight == 2      \* heights the chain holds: 1..MaxHeight
MaxEventId == 6     \* cap on the events AUTOINCREMENT counter
MaxServedEventId == 7   \* the same cap, for the store the read API serves

Heights == 1..MaxHeight

None == "None"      \* Python's None / SQL NULL, where the value is text
NoInt == <<>>       \* Python's None / SQL NULL, where the value is an integer
Int1(n) == <<n>>    \* an integer that is present
NoTx == <<>>        \* no transaction open on the writer connection

ChainIds == {"foo", "bar"}

(***************************************************************************)
(* RPC payloads.  A raw transaction is its base64 text; "!" is text that   *)
(* base64.b64decode rejects.  A txs_results entry is its code and the      *)
(* number of its events; the three block-level buckets are event counts.   *)
(* The events of one list differ in their type, taken to be the text of    *)
(* the event's position in the list.                                       *)
(***************************************************************************)
TxResult(code, n) == [code |-> code, events |-> n]

Payloads ==
    { \* an empty block
      [txs |-> <<>>, results |-> <<>>,
       begin_block |-> 0, end_block |-> 0, finalize_block |-> 0],
      \* two different transactions, block events in two buckets
      [txs |-> <<"YQ==", "Yg==">>,
       results |-> <<TxResult(Int1(0), 1), TxResult(NoInt, 1)>>,
       begin_block |-> 2, end_block |-> 0, finalize_block |-> 1],
      \* the same raw transaction twice, undecodable, and txs_results
      \* shorter than data.txs
      [txs |-> <<"!", "!">>,
       results |-> <<TxResult(Int1(5), 1)>>,
       begin_block |-> 0, end_block |-> 1, finalize_block |-> 0] }

\* _b64_to_bytes: None for empty or undecodable text, else the bytes
_b64_to_bytes(value) ==
    CASE value = "YQ==" -> "a"
      [] value = "Yg==" -> "b"
      [] OTHER -> None

\* hashlib.sha256(...).hexdigest().upper(), injective on the bytes used here
Sha256Upper(bytes) ==
    CASE bytes = "a" -> "CA97"
      [] bytes = "b" -> "3E23"
      [] OTHER -> "E3B0"

\* _tx_hash_hex: undecodable text hashes as the empty byte string
_tx_hash_hex(tx_b64) ==
    LET tx_bytes == IF _b64_to_bytes(tx_b64) = None THEN "" ELSE _b64_to_bytes(tx_b64)
    IN  Sha256Upper(tx_bytes)

(***************************************************************************)
(* index_height's view of a payload                                        *)
(***************************************************************************)
RECURSIVE Repeat(_, _)
Repeat(x, n) == IF n = 0 THEN <<>> ELSE <<x>> \o Repeat(x, n - 1)

\* faulty variant: the begin_block bucket is read last
BlockEventSourcesBeginLast(p) ==
    Repeat("end_block", p.end_block)
        \o Repeat("finalize_block", p.finalize_block)
        \o Repeat("begin_block", p.begin_block)

\* block_event_sources, flattened: the source of each block-level event in
\* the order the two nested loops insert them
BlockEventSources(p) ==
    Repeat("begin_block", p.begin_block)
        \o Repeat("end_block", p.end_block)
        \o Repeat("finalize_block", p.finalize_block)

\* e.get("type") of the events of a list of n events, in the list's order
EventTypes(n) == [k \in 1..n |-> ToString(k - 1)]

\* the type of each block-level event, in the order of BlockEventSources
BlockEventTypes(p) ==
    EventTypes(p.begin_block) \o EventTypes(p.end_block) \o EventTypes(p.finalize_block)

\* faulty variant: a transaction without a txs_results entry gets code 0
TxrOfZeroWhenMissing(p, k) ==
    IF k < Len(p.results) THEN p.results[k + 1] ELSE TxResult(Int1(0), 0)

\* txr = txs_results_list[i] if i < len(txs_results_list) else {}   (i 0-based)
TxrOf(p, k) == IF k < Len(p.results) THEN p.results[k + 1] ELSE TxResult(NoInt, 0)

\* len(events_norm) of tx k
NumTxEvents(p, k) == TxrOf(p, k).events

RECURSIVE SumTxEvents(_, _)
SumTxEvents(p, k) == IF k = 0 THEN 0 ELSE NumTxEvents(p, k - 1) + SumTxEvents(p, k - 1)

\* the number of INSERT INTO events statements index_height runs for p
NumEvents(p) == Len(BlockEventSources(p)) + SumTxEvents(p, Len(p.txs))

(***************************************************************************)
(* SQL statements of index_height, on a set of tables d                    *)
(***************************************************************************)
EmptyDb == [blocks |-> {}, txs |-> {}, events |-> {}, seq |-> 0]

\* INSERT OR REPLACE INTO blocks: height is the primary key
InsertOrReplaceBlock(d, h, p) ==
    [d EXCEPT !.blocks = {b \in @ : b.height # h}
                \cup {[height |-> h, tx_count |-> Len(p.txs), payload |-> p]}]

\* faulty variant: the DELETE is left out
DeleteEventsOmitted(d, h) == d

\* DELETE FROM events WHERE height = ?
DeleteEvents(d, h) == [d EXCEPT !.events = {e \in @ : e.height # h}]

\* DELETE FROM txs WHERE height = ?
DeleteTxs(d, h) == [d EXCEPT !.txs = {t \in @ : t.height # h}]

\* INSERT INTO events: id is INTEGER PRIMARY KEY AUTOINCREMENT
InsertEvent(d, h, tx_hash, source, event_index, event_type) ==
    [d EXCEPT !.events = @ \cup {[id |-> d.seq + 1, height |-> h, tx_hash |-> tx_hash,
                                  source |-> source, event_index |-> event_index,
                                  event_type |-> event_type]},
              !.seq = d.seq + 1]

\* faulty variant: INSERT OR IGNORE, the row already stored for the hash stays
InsertOrIgnoreTx(d, tx_hash, h, tx_index, code) ==
    IF \E t \in d.txs : t.tx_hash = tx_hash THEN d
    ELSE [d EXCEPT !.txs = @ \cup {[tx_hash |-> tx_hash, height |-> h,
                                     tx_index |-> tx_index, code |-> code]}]

\* INSERT OR REPLACE INTO txs: tx_hash is the primary key
InsertOrReplaceTx(d, tx_hash, h, tx_index, code) ==
    [d EXCEPT !.txs = {t \in @ : t.tx_hash # tx_hash}
                \cup {[tx_hash |-> tx_hash, height |-> h, tx_index |-> tx_index,
                       code |-> code]}]

\* _meta_set: INSERT ... ON CONFLICT(key) DO UPDATE, in autocommit mode
_meta_set(m, key, value) == [m EXCEPT ![key] = value]

\* str(n) of an integer, the text run_forever stores in meta
Str(n) == ToString(n)

\* int(text): the integer the text denotes, NoInt where int() raises
ParseInt(text) ==
    LET S == {n \in (0 - 1)..(MaxHeight + 1) : Str(n) = text}
    IN  IF S = {} THEN NoInt ELSE Int1(CHOOSE n \in S : TRUE)

\* _meta_get_int: NoInt when the key is absent or its value is no integer
_meta_get_int(m, key) == IF m[key] = None THEN NoInt ELSE ParseInt(m[key])

(***************************************************************************)
(* The statements of one index_height transaction, run to the end          *)
(***************************************************************************)
\* the block-level loop from its k-th event on, ev_id = k
RECURSIVE WriteBlockEvents(_, _, _, _)
WriteBlockEvents(d, h, p, k) ==
    IF k >= Len(BlockEventSources(p)) THEN d
    ELSE WriteBlockEvents(InsertEvent(d, h, None, BlockEventSources(p)[k + 1], k,
                                      BlockEventTypes(p)[k + 1]), h, p, k + 1)

\* the events of tx k from its n-th on, ev_id = e
RECURSIVE WriteTxEvents(_, _, _, _, _, _)
WriteTxEvents(d, h, p, k, n, e) ==
    IF n >= NumTxEvents(p, k) THEN d
    ELSE WriteTxEvents(InsertEvent(d, h, _tx_hash_hex(p.txs[k + 1]), "tx", e,
                                   EventTypes(NumTxEvents(p, k))[n + 1]),
                       h, p, k, n + 1, e + 1)

\* the tx loop from tx k on, ev_id = e
RECURSIVE WriteTxs(_, _, _, _, _)
WriteTxs(d, h, p, k, e) ==
    IF k >= Len(p.txs) THEN d
    ELSE LET row == InsertOrReplaceTx(d, _tx_hash_hex(p.txs[k + 1]), h, k, TxrOf(p, k).code)
         IN  WriteTxs(WriteTxEvents(row, h, p, k, 0, e), h, p, k + 1, e + NumTxEvents(p, k))

\* BEGIN ... COMMIT of index_height(h) with payload p, on committed tables d
WriteHeight(d, h, p) ==
    LET cleared == DeleteTxs(DeleteEvents(InsertOrReplaceBlock(d, h, p), h), h)
        blockev == WriteBlockEvents(cleared, h, p, 0)
    IN  WriteTxs(blockev, h, p, 0, Len(BlockEventSources(p)))

(***************************************************************************)
(* Readers.  IndexerDB.connect opens a connection of its own, so a query   *)
(* reads the committed tables, never the writer's open transaction.        *)
(***************************************************************************)
\* faulty variant: the reader shares the writer's connection and its open transaction
ReaderViewUncommitted == IF wdb # NoTx THEN wdb[1] ELSE db

ReaderView == db

\* the rows of height h in tables d
RowsOf(d, h) ==
    [height |-> h,
     blocks |-> {b \in d.blocks : b.height = h},
     txs    |-> {t \in d.txs : t.height = h},
     events |-> {e \in d.events : e.height = h}]

(***************************************************************************)
(* The read API (indexer_api.py): query parameters.  parse_qs maps a key   *)
(* to the list of its values and leaves out keys with a blank value, so    *)
(* q[key] is <<>> for a key that is absent or given as `key=`.             *)
(***************************************************************************)
Absent == <<>>

\* text.strip()
Strip(text) ==
    CASE text = " 2 " -> "2"
      [] text = " " -> ""
      [] text = " https://a" -> "https://a"
      [] OTHER -> text

\* the integers whose decimal text occurs in a request
IntLiterals == {0 - 5, 0 - 1, 0, 1, 2, 3, 10000}

\* int(text): NoInt stands for ValueError
PyInt(text) ==
    LET S == {n \in IntLiterals : ToString(n) = text}
    IN  IF S = {} THEN NoInt ELSE Int1(CHOOSE n \in S : TRUE)

\* (q.get(key) or [dflt])[0]
FirstOr(values, dflt) == IF values = Absent THEN dflt ELSE values[1]

Min(a, b) == IF a < b THEN a ELSE b
Max(a, b) == IF a > b THEN a ELSE b

\* faulty variant: the value is not clamped
_parse_int_unclamped(values, default, min_value, max_value) ==
    LET raw == Strip(FirstOr(values, ""))
    IN  IF raw = "" THEN default
        ELSE IF PyInt(raw) = NoInt THEN default
        ELSE PyInt(raw)[1]

\* faulty variant: a value below min_value gives the default
_parse_int_default_below(values, default, min_value, max_value) ==
    LET raw == Strip(FirstOr(values, ""))
    IN  IF raw = "" THEN default
        ELSE IF PyInt(raw) = NoInt THEN default
        ELSE IF PyInt(raw)[1] < min_value THEN default
        ELSE Min(max_value, PyInt(raw)[1])

\* _parse_int, given q.get(key)
_parse_int(values, default, min_value, max_value) ==
    LET raw == Strip(FirstOr(values, ""))
    IN  IF raw = "" THEN default
        ELSE IF PyInt(raw) = NoInt THEN default
        ELSE Max(min_value, Min(max_value, PyInt(raw)[1]))

\* _parse_str, given q.get(key): None for a blank value
_parse_str(values) ==
    LET raw == Strip(FirstOr(values, ""))
    IN  IF raw = "" THEN None ELSE raw

\* faulty variant: the text is compared as given
LowerOmitted(text) == text

\* text.lower()
Lower(text) ==
    CASE text = "ASC" -> "asc"
      [] text = "Asc" -> "asc"
      [] text = "DESC" -> "desc"
      [] OTHER -> text

\* text.upper(), for the hashes a request can name
Upper(text) ==
    CASE text = "ca97" -> "CA97"
      [] text = "e3b0" -> "E3B0"
      [] text = "3e23" -> "3E23"
      [] OTHER -> text

\* text.isdigit()
IsDigit(text) == PyInt(text) # NoInt /\ PyInt(text)[1] >= 0

\* `int(height_raw) if height_raw and height_raw.isdigit() else None`
HeightFilter(values) ==
    LET height_raw == _parse_str(values)
    IN  IF height_raw # None /\ IsDigit(height_raw) THEN PyInt(height_raw) ELSE NoInt

\* order_sql of IndexerDB.blocks and IndexerDB.txs
OrderSqlUnlessAsc(order) == IF Lower(order) # "asc" THEN "DESC" ELSE "ASC"

\* order_sql of IndexerDB.events
OrderSqlIfDesc(order) == IF Lower(order) = "desc" THEN "DESC" ELSE "ASC"

(***************************************************************************)
(* The read API: SQL of IndexerDB, on committed tables d                   *)
(***************************************************************************)
\* ORDER BY: the rows of S as a sequence, x before y when <<x, y>> is in before
OrderBy(S, before) ==
    [k \in 1..Cardinality(S) |->
        CHOOSE x \in S : Cardinality({y \in S : <<y, x>> \in before}) = k - 1]

\* faulty variant: OFFSET is not applied
LimitWithoutOffset(rows, limit, offset) == SubSeq(rows, 1, Min(Len(rows), limit))

\* LIMIT ? OFFSET ?
LimitOffset(rows, limit, offset) ==
    SubSeq(rows, offset + 1, Min(Len(rows), offset + limit))

\* ASC or DESC on an integer column
InOrder(order_sql, a, b) == IF order_sql = "DESC" THEN a > b ELSE a < b

\* the columns the list of blocks selects
BlockItem(b) == [height |-> b.height, tx_count |-> b.tx_count]

\* SELECT COUNT(1) FROM blocks
CountBlocks(d) == Cardinality(d.blocks)

\* SELECT ... FROM blocks ORDER BY height {order_sql} LIMIT ? OFFSET ?
SelectBlocks(d, order_sql, limit, offset) ==
    LET rows == OrderBy(d.blocks, {xy \in d.blocks \X d.blocks :
                                     InOrder(order_sql, xy[1].height, xy[2].height)})
    IN  LimitOffset([k \in 1..Len(rows) |-> BlockItem(rows[k])], limit, offset)

\* where_sql of IndexerDB.txs
TxsWhere(d, height) == {t \in d.txs : height = NoInt \/ t.height = height[1]}

\* SELECT COUNT(1) FROM txs t {where_sql}
CountTxs(d, height) == Cardinality(TxsWhere(d, height))

\* faulty variant: tx_index runs against the block order in a descending scan
TxOrderByAllDescending(order_sql, x, y) ==
    \/ InOrder(order_sql, x.height, y.height)
    \/ x.height = y.height /\ InOrder(order_sql, x.tx_index, y.tx_index)

\* order_by: t.height {order_sql}, t.tx_index ASC if order_sql is DESC, else DESC
TxOrderBy(order_sql, x, y) ==
    \/ InOrder(order_sql, x.height, y.height)
    \/ /\ x.height = y.height
       /\ InOrder(IF order_sql = "DESC" THEN "ASC" ELSE "DESC", x.tx_index, y.tx_index)

\* SELECT ... FROM txs t LEFT JOIN blocks b ... ORDER BY {order_by} LIMIT ? OFFSET ?
SelectTxs(d, order_sql, limit, offset, height) ==
    LET S == TxsWhere(d, height)
    IN  LimitOffset(OrderBy(S, {xy \in S \X S : TxOrderBy(order_sql, xy[1], xy[2])}),
                    limit, offset)

\* where_sql of IndexerDB.events
EventsWhere(d, height, tx_hash, event_type, source) ==
    {e \in d.events : /\ height = NoInt \/ e.height = height[1]
                      /\ tx_hash = None \/ e.tx_hash = tx_hash
                      /\ event_type = None \/ e.event_type = event_type
                      /\ source = None \/ e.source = source}

\* SELECT COUNT(1) FROM events {where_sql}
CountEvents(d, height, tx_hash, event_type, source) ==
    Cardinality(EventsWhere(d, height, tx_hash, event_type, source))

\* SELECT ... FROM events {where_sql} ORDER BY id {order_sql} LIMIT ? OFFSET ?
SelectEvents(d, order_sql, limit, offset, height, tx_hash, event_type, source) ==
    LET S == EventsWhere(d, height, tx_hash, event_type, source)
    IN  LimitOffset(OrderBy(S, {xy \in S \X S : InOrder(order_sql, xy[1].id, xy[2].id)}),
                    limit, offset)

(***************************************************************************)
(* The read API: the handler's state between requests                      *)
(***************************************************************************)
NoResponse == [status |-> 0]

\* parse_qs of an empty query string
NoQuery == [limit |-> Absent, offset |-> Absent, order |-> Absent, height |-> Absent,
            tx_hash |-> Absent, type |-> Absent, source |-> Absent,
            include_raw |-> Absent]

\* no request is being served
ApiIdle ==
    [pc |-> "idle", origin |-> Absent, route |-> "", q |-> NoQuery, arg |-> "",
     limit |-> 0, offset |-> 0, order_sql |-> "",
     height |-> NoInt, tx_hash |-> None, event_type |-> None, source |-> None,
     include_raw |-> FALSE, query_only |-> FALSE, total |-> 0, resp |-> NoResponse]

\* the API process is in serve_forever with this allowlist
Serving(allowed) == [pc |-> "serving", exit |-> NoInt, cors_allowed_origins |-> allowed]

\* faulty variant: the Origin header is echoed whenever an allowlist is set
_cors_origin_echoed(allowed, origin_header) ==
    LET origin == Strip(FirstOr(origin_header, ""))
    IN  IF origin = "" \/ allowed = <<>> THEN None ELSE origin

\* _cors_origin_for_request, given handler.headers.get("Origin") as a list
\* of at most one value
_cors_origin_for_request(allowed, origin_header) ==
    LET origin == Strip(FirstOr(origin_header, ""))
    IN  IF origin = "" \/ allowed = <<>> THEN None
        ELSE IF \E k \in 1..Len(allowed) : allowed[k] = "*" THEN "*"
        ELSE IF \E k \in 1..Len(allowed) : allowed[k] = origin THEN origin
        ELSE None

\* _maybe_write_cors_headers: the headers it sends
CorsHeaders(allowed, origin_header) ==
    LET cors_origin == _cors_origin_for_request(allowed, origin_header)
    IN  IF cors_origin = None THEN {}
        ELSE {<<"Access-Control-Allow-Origin", cors_origin>>,
              <<"Vary", "Origin">>,
              <<"Access-Control-Allow-Methods", "GET, OPTIONS">>,
              <<"Access-Control-Allow-Headers", "Content-Type">>}

\* the handler serving request a has sent resp, with the CORS headers of
\* the request
ApiSent(a, resp) ==
    [a EXCEPT !.pc = "sent",
              !.resp = [headers |-> CorsHeaders(server.cors_allowed_origins, a.origin)]
                          @@ resp]

\* the API process accepts a request
Accepting == server.pc = "serving" /\ api.pc = "idle"

(***************************************************************************)
(* Init: a freshly created store, no worker running                        *)
(***************************************************************************)
Init ==
    /\ chain \in [Heights -> Payloads]
    /\ meta = [chain_id |-> None, last_indexed_height |-> None]
    /\ db = EmptyDb
    /\ wdb = NoTx
    /\ pc = "idle"
    /\ start_height = NoInt
    /\ stop_event = FALSE
    /\ chain_id = None
    /\ next_height = 0
    /\ latest = 0
    /\ i = 0 /\ j = 0 /\ ev_id = 0
    /\ log = "" /\ slept = 0
    /\ api = ApiIdle
    /\ server = Serving(<<>>)

\* what the indexer never touches: the chain and the API server
env == <<chain, api, server>>
locals == <<i, j, ev_id>>
loopvars == <<chain_id, next_height, latest>>
Quiet == log' = "" /\ slept' = 0
Running == pc # "idle"

\* the payload /block and /block_results return for the height in hand
Payload == chain[next_height]
\* the tables the writer connection sees inside its transaction
Tx == wdb[1]

(***************************************************************************)
(* The supervisor (gui_node_manager.py) and the operating system           *)
(***************************************************************************)
StartHeights == {NoInt} \cup {Int1(n) : n \in (0 - 1)..MaxHeight}

\* start_sql_indexer: clear the stop event, build the config, start the
\* worker thread, which opens the store (CREATE TABLE IF NOT EXISTS)
Start ==
    /\ pc = "idle"
    /\ \E sh \in StartHeights : start_height' = sh
    /\ stop_event' = FALSE
    /\ pc' = "init"
    /\ Quiet
    /\ UNCHANGED <<env, meta, db, wdb, loopvars, locals>>

\* stop_sql_indexer, while the worker thread is alive
Stop ==
    /\ Running
    /\ ~stop_event
    /\ stop_event' = TRUE
    /\ Quiet
    /\ UNCHANGED <<env, meta, db, wdb, pc, start_height, loopvars, locals>>

\* the worker is gone, and its configuration and locals with it
Gone ==
    /\ pc' = "idle"
    /\ start_height' = NoInt
    /\ chain_id' = None /\ next_height' = 0 /\ latest' = 0
    /\ i' = 0 /\ j' = 0 /\ ev_id' = 0

\* the process dies at any point: an open transaction is never committed
Crash ==
    /\ Running
    /\ Gone
    /\ wdb' = NoTx
    /\ Quiet
    /\ UNCHANGED <<env, meta, db, stop_event>>

(***************************************************************************)
(* run_forever, before the loop                                            *)
(***************************************************************************)
\* faulty variant: the configured start height is ignored
FirstHeightResumeOnly(sh, m) ==
    LET last == _meta_get_int(m, "last_indexed_height")
    IN  IF last # NoInt THEN last[1] + 1 ELSE 1

\* faulty variant: the run resumes one height too far
FirstHeightSkipsOne(sh, m) ==
    IF sh # NoInt THEN sh[1]
    ELSE LET last == _meta_get_int(m, "last_indexed_height")
         IN  IF last # NoInt THEN last[1] + 2 ELSE 2

\* the first height: cfg.start_height, else last_indexed_height + 1, else 1
FirstHeight(sh, m) ==
    IF sh # NoInt THEN sh[1]
    ELSE LET last == _meta_get_int(m, "last_indexed_height")
         IN  IF last # NoInt THEN last[1] + 1 ELSE 1

\* what the chain-id step leaves in meta
RecordChainId(m, cid) ==
    IF cid # None THEN _meta_set(m, "chain_id", cid) ELSE m

\* get_status succeeds: record the chain id, choose the first height
InitOk ==
    /\ pc = "init"
    /\ \E cid \in ChainIds \cup {None}, l \in 0..MaxHeight :
          chain_id' = cid /\ latest' = l
    /\ meta' = RecordChainId(meta, chain_id')
    /\ next_height' = FirstHeight(start_height, meta')
    /\ pc' = "loop"
    /\ log' = "starting" /\ slept' = 0
    /\ UNCHANGED <<env, db, wdb, start_height, stop_event, locals>>

\* get_status (or the chain-id write) raises outside the try: run_forever
\* raises, and the thread's wrapper logs and ends the worker
InitFail ==
    /\ pc = "init"
    /\ Gone
    /\ log' = "ERROR running indexer" /\ slept' = 0
    /\ UNCHANGED <<env, meta, db, wdb, stop_event>>

(***************************************************************************)
(* run_forever, the loop                                                   *)
(***************************************************************************)
\* the ERROR line for an exception raised by the named call
ErrorLine(exc) == "ERROR: " \o exc
\* what a statement of the try block can raise: the store cannot be written
\* (locked, I/O), or the row violates a constraint of the schema
WriteErrors == {"write", "constraint"}
ErrorLines == {ErrorLine(exc) : exc \in {"status", "fetch", "begin", "meta"} \cup WriteErrors}

\* time.sleep(2.0)
BackoffSleep == 20

\* `except Exception as exc`: log the error, sleep 2.0, go round the loop again
Backoff(exc) ==
    /\ pc' = "loop"
    /\ log' = ErrorLine(exc) /\ slept' = BackoffSleep
    /\ i' = 0 /\ j' = 0 /\ ev_id' = 0

\* faulty variant: the stop event ends the loop only once the tip is reached
LoopExitWhenCaughtUp ==
    /\ pc = "loop"
    /\ stop_event
    /\ next_height > latest
    /\ Gone
    /\ Quiet
    /\ UNCHANGED <<env, meta, db, wdb, stop_event>>

\* the loop condition finds the stop event set: run_forever returns
LoopExit ==
    /\ pc = "loop"
    /\ stop_event
    /\ Gone
    /\ Quiet
    /\ UNCHANGED <<env, meta, db, wdb, stop_event>>

\* faulty variant: next_height is used as it is
ClampHeightOmitted(n) == n

\* if next_height <= 0: next_height = 1
ClampHeight(n) == IF n <= 0 THEN 1 ELSE n

\* cfg.poll_seconds, in tenths of a second (2.0 is the default)
PollSeconds == {1, 20}

\* the floor of the poll sleep, 0.5
MinPollSleep == 5

\* max(0.5, float(self.cfg.poll_seconds))
PollSleep(p) == IF p > MinPollSleep THEN p ELSE MinPollSleep

\* faulty variant: the height is indexed whatever the tip
LoopStatusIgnoresTip ==
    /\ pc = "loop"
    /\ ~stop_event
    /\ \E l \in 0..MaxHeight : latest' = l
    /\ next_height' = ClampHeight(next_height)
    /\ pc' = "fetch"
    /\ Quiet
    /\ UNCHANGED <<env, meta, db, wdb, start_height, stop_event, chain_id, locals>>

\* get_status succeeds; then tail (sleep the poll interval) or go on to index
LoopStatus ==
    /\ pc = "loop"
    /\ ~stop_event
    /\ \E l \in 0..MaxHeight : latest' = l
    /\ next_height' = ClampHeight(next_height)
    /\ IF next_height' > latest'
         THEN pc' = "loop" /\ log' = "" /\ \E p \in PollSeconds : slept' = PollSleep(p)
         ELSE pc' = "fetch" /\ Quiet
    /\ UNCHANGED <<env, meta, db, wdb, start_height, stop_event, chain_id, locals>>

\* get_status raises inside the try
LoopStatusFail ==
    /\ pc = "loop"
    /\ ~stop_event
    /\ Backoff("status")
    /\ UNCHANGED <<env, meta, db, wdb, start_height, stop_event, loopvars>>

(***************************************************************************)
(* index_height                                                            *)
(***************************************************************************)
\* both RPC documents arrive.  (The guard caps the AUTOINCREMENT counter.)
Fetch ==
    /\ pc = "fetch"
    /\ next_height \in Heights
    /\ db.seq + NumEvents(Payload) <= MaxEventId
    /\ pc' = "begin"
    /\ Quiet
    /\ UNCHANGED <<env, meta, db, wdb, start_height, stop_event, loopvars, locals>>

\* _http_get_json raises (network, timeout, non-2xx, malformed JSON)
FetchFail ==
    /\ pc = "fetch"
    /\ Backoff("fetch")
    /\ UNCHANGED <<env, meta, db, wdb, start_height, stop_event, loopvars>>

\* the statement after the block-level events: the first tx, or COMMIT
PcAfterBlockEvents(p) == IF Len(p.txs) > 0 THEN "tx_ins" ELSE "commit"

\* the statement after the two DELETEs
PcAfterDelete(p) ==
    IF Len(BlockEventSources(p)) > 0 THEN "blk_ev" ELSE PcAfterBlockEvents(p)

\* the statement after tx k and its events are written
PcAfterTx(p, k) == IF k + 1 < Len(p.txs) THEN "tx_ins" ELSE "commit"

\* BEGIN
Begin ==
    /\ pc = "begin"
    /\ wdb' = <<db>>
    /\ pc' = "ins_block"
    /\ Quiet
    /\ UNCHANGED <<env, meta, db, start_height, stop_event, loopvars, locals>>

\* INSERT OR REPLACE INTO blocks
InsBlock ==
    /\ pc = "ins_block"
    /\ wdb' = <<InsertOrReplaceBlock(Tx, next_height, Payload)>>
    /\ pc' = "del_events"
    /\ Quiet
    /\ UNCHANGED <<env, meta, db, start_height, stop_event, loopvars, locals>>

\* DELETE FROM events WHERE height = ?
DelEvents ==
    /\ pc = "del_events"
    /\ wdb' = <<DeleteEvents(Tx, next_height)>>
    /\ pc' = "del_txs"
    /\ Quiet
    /\ UNCHANGED <<env, meta, db, start_height, stop_event, loopvars, locals>>

\* DELETE FROM txs WHERE height = ?; ev_id = 0
DelTxs ==
    /\ pc = "del_txs"
    /\ wdb' = <<DeleteTxs(Tx, next_height)>>
    /\ ev_id' = 0 /\ i' = 0 /\ j' = 0
    /\ pc' = PcAfterDelete(Payload)
    /\ Quiet
    /\ UNCHANGED <<env, meta, db, start_height, stop_event, loopvars>>

\* one INSERT INTO events of the block-level loop; ev_id += 1
BlockEvent ==
    /\ pc = "blk_ev"
    /\ wdb' = <<InsertEvent(Tx, next_height, None, BlockEventSources(Payload)[ev_id + 1],
                            ev_id, BlockEventTypes(Payload)[ev_id + 1])>>
    /\ ev_id' = ev_id + 1
    /\ pc' = IF ev_id' < Len(BlockEventSources(Payload))
               THEN "blk_ev" ELSE PcAfterBlockEvents(Payload)
    /\ Quiet
    /\ UNCHANGED <<env, meta, db, start_height, stop_event, loopvars, i, j>>

\* INSERT OR REPLACE INTO txs for tx i
TxInsert ==
    /\ pc = "tx_ins"
    /\ wdb' = <<InsertOrReplaceTx(Tx, _tx_hash_hex(Payload.txs[i + 1]), next_height, i,
                                  TxrOf(Payload, i).code)>>
    /\ IF NumTxEvents(Payload, i) > 0
         THEN pc' = "tx_ev" /\ i' = i /\ j' = 0
         ELSE pc' = PcAfterTx(Payload, i) /\ i' = i + 1 /\ j' = 0
    /\ Quiet
    /\ UNCHANGED <<env, meta, db, start_height, stop_event, loopvars, ev_id>>

\* one INSERT INTO events of tx i's events; ev_id += 1
TxEvent ==
    /\ pc = "tx_ev"
    /\ wdb' = <<InsertEvent(Tx, next_height, _tx_hash_hex(Payload.txs[i + 1]), "tx", ev_id,
                            EventTypes(NumTxEvents(Payload, i))[j + 1])>>
    /\ ev_id' = ev_id + 1
    /\ IF j + 1 < NumTxEvents(Payload, i)
         THEN pc' = "tx_ev" /\ i' = i /\ j' = j + 1
         ELSE pc' = PcAfterTx(Payload, i) /\ i' = i + 1 /\ j' = 0
    /\ Quiet
    /\ UNCHANGED <<env, meta, db, start_height, stop_event, loopvars>>

\* COMMIT: the transaction's tables become the committed ones
CommitTx == db' = Tx /\ wdb' = NoTx

Commit ==
    /\ pc = "commit"
    /\ CommitTx
    /\ pc' = "meta"
    /\ i' = 0 /\ j' = 0 /\ ev_id' = 0
    /\ Quiet
    /\ UNCHANGED <<env, meta, start_height, stop_event, loopvars>>

\* faulty variant: the except branch ends the transaction without undoing it
RollbackKeepsPartial == wdb' = NoTx /\ db' = Tx

\* ROLLBACK: nothing of the transaction remains
Rollback == wdb' = NoTx /\ UNCHANGED db

InTry == {"ins_block", "del_events", "del_txs", "blk_ev", "tx_ins", "tx_ev", "commit"}

\* a statement of the try block raises: ROLLBACK, re-raise to run_forever
WriteFail ==
    /\ pc \in InTry
    /\ Rollback
    /\ \E exc \in WriteErrors : Backoff(exc)
    /\ UNCHANGED <<env, meta, start_height, stop_event, loopvars>>

\* BEGIN itself raises: no transaction was opened
BeginFail ==
    /\ pc = "begin"
    /\ Backoff("begin")
    /\ UNCHANGED <<env, meta, db, wdb, start_height, stop_event, loopvars>>

\* faulty variant: the checkpoint is written after next_height += 1
AdvanceMetaAfterIncrement(m, h) == _meta_set(m, "last_indexed_height", Str(h + 1))

\* back in run_forever: record the checkpoint, log, next_height += 1
AdvanceMeta(m, h) == _meta_set(m, "last_indexed_height", Str(h))

MetaUpdate ==
    /\ pc = "meta"
    /\ meta' = AdvanceMeta(meta, next_height)
    /\ next_height' = next_height + 1
    /\ pc' = "loop"
    /\ log' = "Indexed height" /\ slept' = 0
    /\ UNCHANGED <<env, db, wdb, start_height, stop_event, chain_id, latest, locals>>

\* faulty variant: next_height += 1 runs although the checkpoint write raised
MetaFailSkips ==
    /\ pc = "meta"
    /\ Backoff("meta")
    /\ next_height' = next_height + 1
    /\ UNCHANGED <<env, meta, db, wdb, start_height, stop_event, chain_id, latest>>

\* the checkpoint write raises
MetaFail ==
    /\ pc = "meta"
    /\ Backoff("meta")
    /\ UNCHANGED <<env, meta, db, wdb, start_height, stop_event, loopvars>>

(***************************************************************************)
(* Specification                                                           *)
(***************************************************************************)
Next ==
    \/ Start \/ Stop \/ Crash
    \/ InitOk \/ InitFail
    \/ LoopExit \/ LoopStatus \/ LoopStatusFail
    \/ Fetch \/ FetchFail
    \/ Begin \/ BeginFail
    \/ InsBlock \/ DelEvents \/ DelTxs \/ BlockEvent \/ TxInsert \/ TxEvent \/ Commit
    \/ WriteFail
    \/ MetaUpdate \/ MetaFail

Spec == Init /\ [][Next]_vars

\* a step of the worker thread (everything but the supervisor and the crash)
WorkerStep ==
    \/ InitOk \/ InitFail
    \/ LoopExit \/ LoopStatus \/ LoopStatusFail
    \/ Fetch \/ FetchFail
    \/ Begin \/ BeginFail
    \/ InsBlock \/ DelEvents \/ DelTxs \/ BlockEvent \/ TxInsert \/ TxEvent \/ Commit
    \/ WriteFail
    \/ MetaUpdate \/ MetaFail

\* the supervisor starts the indexer on a store that holds no height yet
StartOnNewStore ==
    /\ db = EmptyDb
    /\ meta.last_indexed_height = None
    /\ Start

\* one session on a new store: started, perhaps stopped, never killed
NextRun == StartOnNewStore \/ Stop \/ WorkerStep

\* the worker thread keeps running: every RPC call, statement and sleep returns
RunSpec == Init /\ [][NextRun]_vars /\ WF_vars(WorkerStep)

\* start_sql_indexer with the start-height field left empty
StartWithoutHeight == Start /\ start_height' = NoInt

NextResume == StartWithoutHeight \/ Stop \/ Crash \/ WorkerStep

\* a store whose runs all resume from the checkpoint
ResumeSpec == Init /\ [][NextResume]_vars

\* reset_sql_indexer_db, both dialogs confirmed: stop_sql_indexer when the
\* worker thread is alive, which sets the stop event and returns at once; then
\* the database file is renamed and its sidecars removed.  The path holds no
\* store until the next open creates one; a worker that is still running keeps
\* its connection, now to the renamed file ("detached").
ResetDb ==
    /\ stop_event' = IF pc # "idle" THEN TRUE ELSE stop_event
    /\ db' = EmptyDb
    /\ meta' = [chain_id |-> None, last_indexed_height |-> None]
    /\ wdb' = NoTx
    /\ pc' = IF pc = "idle" THEN "idle" ELSE "detached"
    /\ Quiet
    /\ UNCHANGED <<env, start_height, loopvars, locals>>

\* the detached worker reaches the loop condition, finds the stop event set
\* and ends
DetachedExit ==
    /\ pc = "detached"
    /\ stop_event
    /\ pc' = "idle"
    /\ Quiet
    /\ UNCHANGED <<env, meta, db, wdb, start_height, stop_event, loopvars, locals>>

NextReset == StartWithoutHeight \/ Stop \/ ResetDb \/ DetachedExit \/ WorkerStep

\* the supervisor starting, stopping and resetting
ResetSpec == Init /\ [][NextReset]_vars

\* the RPC node reports the same tip in every /status answer
TipIsFixed == latest' = MaxHeight

\* the supervisor has started the indexer, without start height, on a new store
InitStarted ==
    /\ chain \in [Heights -> Payloads]
    /\ meta = [chain_id |-> None, last_indexed_height |-> None]
    /\ db = EmptyDb
    /\ wdb = NoTx
    /\ pc = "init"
    /\ start_height = NoInt
    /\ stop_event = FALSE
    /\ chain_id = None
    /\ next_height = 0
    /\ latest = 0
    /\ i = 0 /\ j = 0 /\ ev_id = 0
    /\ log = "" /\ slept = 0
    /\ api = ApiIdle
    /\ server = Serving(<<>>)

InitOkAtTip == InitOk /\ TipIsFixed
LoopStatusAtTip == LoopStatus /\ TipIsFixed

\* a step of the worker thread against that node
WorkerAtTip ==
    \/ InitOkAtTip \/ InitFail
    \/ LoopStatusAtTip \/ LoopStatusFail
    \/ Fetch \/ FetchFail
    \/ Begin \/ BeginFail
    \/ InsBlock \/ DelEvents \/ DelTxs \/ BlockEvent \/ TxInsert \/ TxEvent \/ Commit
    \/ WriteFail
    \/ MetaUpdate \/ MetaFail

\* a call of the worker raises
Failure == InitFail \/ LoopStatusFail \/ FetchFail \/ BeginFail \/ WriteFail \/ MetaFail

\* that session, never stopped, against a node with a fixed tip: the worker
\* keeps running and only finitely many of its calls fail
ConvergeSpec ==
    InitStarted /\ [][WorkerAtTip]_vars /\ WF_vars(WorkerAtTip) /\ <>[][~Failure]_vars

(***************************************************************************)
(* The read API: Handler.do_GET and do_OPTIONS.  A request is served in    *)
(* steps: routing, parameter parsing and IndexerDB.connect; then each      *)
(* SELECT, the last of which is followed by the response.  The indexer     *)
(* may commit a height between two of them.                                *)
(***************************************************************************)
indexerVars == <<chain, meta, db, wdb, pc, start_height, stop_event, loopvars, locals,
                 log, slept>>

\* values of limit and offset in a query string
IntParams ==
    {Absent} \cup {<<t>> : t \in {"abc", " ", "-5", "-1", "0", "1", "2", " 2 ", "10000"}}
SomeIntParams == {Absent, <<"1">>, <<"2">>}

\* values of order
OrderParams == {Absent} \cup {<<t>> : t \in {"asc", "ASC", "Asc", "desc", "DESC", "xyz"}}
SomeOrderParams == {Absent, <<"asc">>, <<"desc">>}

\* values of height
HeightParams == {Absent, <<"abc">>, <<"-1">>} \cup {<<ToString(h)>> : h \in Heights}
SomeHeightParams == {Absent} \cup {<<ToString(h)>> : h \in Heights}

\* the filters of /v1/events other than height
EventFilters ==
    { [tx_hash |-> Absent, type |-> Absent, source |-> Absent],
      [tx_hash |-> <<"e3b0">>, type |-> Absent, source |-> Absent],
      [tx_hash |-> Absent, type |-> <<"1">>, source |-> Absent],
      [tx_hash |-> Absent, type |-> Absent, source |-> <<"tx">>] }

\* faulty variant: the connection is left writable
ConnectWritable(a) == a

\* IndexerDB.connect: sqlite3.connect, then PRAGMA query_only=ON
Connect(a) == [a EXCEPT !.query_only = TRUE]

\* _json_response
JsonResponse(status, obj) == [status |-> status] @@ obj

\* the pagination envelope of the list endpoints
Envelope(a, items) ==
    JsonResponse(200, [total |-> a.total, limit |-> a.limit, offset |-> a.offset,
                       items |-> items])

\* do_OPTIONS: 204, no body, no database access
ApiOptions ==
    /\ Accepting
    /\ api' = ApiSent([api EXCEPT !.route = "OPTIONS"], [status |-> 204])
    /\ UNCHANGED <<indexerVars, server>>

\* do_GET for "/", "/v1/health" and a path that matches no route
ApiGetStatic ==
    /\ Accepting
    /\ \E route \in {"", "/v1/health", "/nope"} :
          api' = ApiSent([api EXCEPT !.route = route],
                         IF route = "/nope"
                           THEN JsonResponse(404, [error |-> "not found"])
                           ELSE JsonResponse(200, [route |-> route]))
    /\ UNCHANGED <<indexerVars, server>>

\* do_GET for /v1/status, up to db.meta()'s connect
ApiGetStatus ==
    /\ Accepting
    /\ api' = Connect([api EXCEPT !.pc = "select", !.route = "/v1/status"])
    /\ UNCHANGED <<indexerVars, server>>

\* do_GET for /v1/blocks, up to db.blocks()'s connect
GetBlocks(Ints, Orders) ==
    /\ Accepting
    /\ \E limit \in Ints, offset \in Ints, order \in Orders :
          api' = Connect([api EXCEPT
                    !.pc = "count", !.route = "/v1/blocks",
                    !.q = [NoQuery EXCEPT !.limit = limit, !.offset = offset,
                                          !.order = order],
                    !.limit = _parse_int(limit, 20, 1, 200),
                    !.offset = _parse_int(offset, 0, 0, 10000000),
                    !.order_sql = OrderSqlUnlessAsc(FirstOr(order, "desc"))])
    /\ UNCHANGED <<indexerVars, server>>

\* do_GET for /v1/txs, up to db.txs()'s connect
GetTxs(Ints, Orders, HeightValues) ==
    /\ Accepting
    /\ \E limit \in Ints, offset \in Ints, order \in Orders, height \in HeightValues :
          api' = Connect([api EXCEPT
                    !.pc = "count", !.route = "/v1/txs",
                    !.q = [NoQuery EXCEPT !.limit = limit, !.offset = offset,
                                          !.order = order, !.height = height],
                    !.limit = _parse_int(limit, 50, 1, 500),
                    !.offset = _parse_int(offset, 0, 0, 10000000),
                    !.order_sql = OrderSqlUnlessAsc(FirstOr(order, "desc")),
                    !.height = HeightFilter(height)])
    /\ UNCHANGED <<indexerVars, server>>

\* do_GET for /v1/events, up to db.events()'s connect
GetEvents(Ints, Orders, HeightValues) ==
    /\ Accepting
    /\ \E limit \in Ints, offset \in Ints, order \in Orders, height \in HeightValues,
          f \in EventFilters :
          api' = Connect([api EXCEPT
                    !.pc = "count", !.route = "/v1/events",
                    !.q = [NoQuery EXCEPT !.limit = limit, !.offset = offset,
                                          !.order = order, !.height = height,
                                          !.tx_hash = f.tx_hash, !.type = f.type,
                                          !.source = f.source],
                    !.limit = _parse_int(limit, 50, 1, 500),
                    !.offset = _parse_int(offset, 0, 0, 10000000),
                    !.order_sql = OrderSqlIfDesc(FirstOr(order, "asc")),
                    !.height = HeightFilter(height),
                    !.tx_hash = IF _parse_str(f.tx_hash) = None THEN None
                                ELSE Upper(_parse_str(f.tx_hash)),
                    !.event_type = _parse_str(f.type),
                    !.source = _parse_str(f.source)])
    /\ UNCHANGED <<indexerVars, server>>

\* values of include_raw
IncludeRawParams == {Absent} \cup {<<t>> : t \in {"1", "true", "yes", "no", "TRUE"}}

\* faulty variant: every value but 0 asks for the raw payloads
IncludeRawUnlessZero(values) == FirstOr(values, "0") # "0"

\* (q.get("include_raw") or ["0"])[0] in ("1", "true", "yes")
IncludeRaw(values) == FirstOr(values, "0") \in {"1", "true", "yes"}

\* the columns db.block selects
BlockColumns ==
    {"height", "time", "proposer_address", "block_id_hash", "tx_count", "block_json",
     "results_json", "indexed_at"}

\* the keys of the row do_GET answers with: the raw payloads are parsed in
\* place when include_raw is set and popped otherwise
BlockKeys(include_raw) ==
    IF include_raw THEN BlockColumns ELSE BlockColumns \ {"block_json", "results_json"}

\* the last path segment of a /v1/blocks/<height> request
BlockArgs == {"abc", "-1"} \cup {ToString(h) : h \in Heights}

\* do_GET for /v1/blocks/<height>: 400 when int() raises ValueError, else up
\* to db.block()'s connect
ApiGetBlock ==
    /\ Accepting
    /\ \E height_str \in BlockArgs, include_raw \in IncludeRawParams :
          api' = IF PyInt(height_str) = NoInt
                   THEN ApiSent([api EXCEPT !.route = "/v1/blocks/", !.arg = height_str],
                                JsonResponse(400, [error |-> "height must be an integer"]))
                   ELSE Connect([api EXCEPT
                           !.pc = "select", !.route = "/v1/blocks/", !.arg = height_str,
                           !.q = [NoQuery EXCEPT !.include_raw = include_raw],
                           !.height = PyInt(height_str),
                           !.include_raw = IncludeRaw(include_raw)])
    /\ UNCHANGED <<indexerVars, server>>

\* the last path segment of a /v1/txs/<hash> request
TxArgs == {"ca97", "E3B0", "FFFF"}

\* do_GET for /v1/txs/<hash>, up to db.tx()'s connect
ApiGetTx ==
    /\ Accepting
    /\ \E arg \in TxArgs :
          api' = Connect([api EXCEPT
                    !.pc = "select", !.route = "/v1/txs/", !.arg = arg,
                    !.tx_hash = Upper(Strip(arg))])
    /\ UNCHANGED <<indexerVars, server>>

\* SELECT COUNT(1) of the list being served
ApiCount ==
    /\ api.pc = "count"
    /\ api' = [api EXCEPT
                 !.pc = "select",
                 !.total = CASE api.route = "/v1/blocks" -> CountBlocks(ReaderView)
                             [] api.route = "/v1/txs" -> CountTxs(ReaderView, api.height)
                             [] api.route = "/v1/events" ->
                                  CountEvents(ReaderView, api.height, api.tx_hash,
                                              api.event_type, api.source)]
    /\ UNCHANGED <<indexerVars, server>>

\* the rows SELECT of the route being served, and what do_GET answers with it
Answer(a, d, m) ==
    CASE a.route = "/v1/blocks" ->
           Envelope(a, SelectBlocks(d, a.order_sql, a.limit, a.offset))
      [] a.route = "/v1/txs" ->
           Envelope(a, SelectTxs(d, a.order_sql, a.limit, a.offset, a.height))
      [] a.route = "/v1/events" ->
           Envelope(a, SelectEvents(d, a.order_sql, a.limit, a.offset, a.height,
                                    a.tx_hash, a.event_type, a.source))
      [] a.route = "/v1/blocks/" ->
           LET rows == {b \in d.blocks : b.height = a.height[1]}
           IN  IF rows = {} THEN JsonResponse(404, [error |-> "not found"])
               ELSE JsonResponse(200, [row |-> BlockItem(CHOOSE b \in rows : TRUE),
                                       keys |-> BlockKeys(a.include_raw)])
      [] a.route = "/v1/txs/" ->
           LET rows == {t \in d.txs : t.tx_hash = a.tx_hash}
           IN  IF rows = {} THEN JsonResponse(404, [error |-> "not found"])
               ELSE JsonResponse(200, [row |-> CHOOSE t \in rows : TRUE])
      [] a.route = "/v1/status" ->
           JsonResponse(200, [chain_id |-> m.chain_id,
                              last_indexed_height |->
                                  IF m.last_indexed_height = None THEN NoInt
                                  ELSE ParseInt(m.last_indexed_height)])

\* the last SELECT of the request, and the response
ApiSelect ==
    /\ api.pc = "select"
    /\ api' = ApiSent(api, Answer(api, ReaderView, meta))
    /\ UNCHANGED <<indexerVars, server>>

\* a statement of the request raises sqlite3.Error (a locked or unreadable
\* database): do_GET has no except clause, so the exception leaves the
\* handler and nothing is sent
ApiStatementFails ==
    /\ api.pc \in {"count", "select"}
    /\ api' = [api EXCEPT !.pc = "raised"]
    /\ UNCHANGED <<indexerVars, server>>

\* the handler returns, or the server's thread drops the connection of a
\* handler that raised; the next request gets a handler of its own
ApiReturn ==
    /\ api.pc \in {"sent", "raised"}
    /\ api' = ApiIdle
    /\ UNCHANGED <<indexerVars, server>>

\* the requests of the specification that follows a store through its commits
ApiGetBlocks == GetBlocks(SomeIntParams, SomeOrderParams)
ApiGetTxs == GetTxs(SomeIntParams, SomeOrderParams, SomeHeightParams)
ApiGetEvents == GetEvents(SomeIntParams, SomeOrderParams, SomeHeightParams)

\* the indexer, as the API sees it: index_height(h) commits
IndexerCommit ==
    /\ \E h \in Heights :
          /\ db.seq + NumEvents(chain[h]) <= MaxServedEventId
          /\ db' = WriteHeight(db, h, chain[h])
    /\ UNCHANGED <<env, meta, wdb, pc, start_height, stop_event, loopvars, locals, log, slept>>

ApiNext ==
    \/ IndexerCommit
    \/ ApiOptions \/ ApiGetStatic \/ ApiGetStatus
    \/ ApiGetBlocks \/ ApiGetBlock \/ ApiGetTxs \/ ApiGetTx \/ ApiGetEvents
    \/ ApiCount \/ ApiSelect \/ ApiReturn

\* the API server beside an indexer that commits heights
ApiSpec == Init /\ [][ApiNext]_vars

\* the requests with every form of parameter value
ParamGetBlocks == GetBlocks(IntParams, OrderParams)
ParamGetTxs == GetTxs(IntParams, OrderParams, HeightParams)
ParamGetEvents == GetEvents(IntParams, OrderParams, HeightParams)

ParamNext ==
    \/ ParamGetBlocks \/ ParamGetTxs \/ ParamGetEvents
    \/ ApiCount \/ ApiSelect \/ ApiReturn

\* the API server answering list requests, whatever their parameters
ParamSpec == Init /\ [][ParamNext]_vars

(***************************************************************************)
(* The API process: main(), then requests with their Origin header         *)
(***************************************************************************)
\* the API process has been launched and main() has not run yet
InitMain ==
    /\ chain \in [Heights -> Payloads]
    /\ meta = [chain_id |-> None, last_indexed_height |-> None]
    /\ db = EmptyDb
    /\ wdb = NoTx
    /\ pc = "idle"
    /\ start_height = NoInt
    /\ stop_event = FALSE
    /\ chain_id = None
    /\ next_height = 0
    /\ latest = 0
    /\ i = 0 /\ j = 0 /\ ev_id = 0
    /\ log = "" /\ slept = 0
    /\ api = ApiIdle
    /\ server = [pc |-> "main", exit |-> NoInt, cors_allowed_origins |-> <<>>]

\* values of --listen
ListenArgs == {"127.0.0.1:10000", "localhost", "127.0.0.1:abc"}

\* text.rsplit(":", 1)
RsplitColon(text) ==
    CASE text = "127.0.0.1:10000" -> <<"127.0.0.1", "10000">>
      [] text = "127.0.0.1:abc" -> <<"127.0.0.1", "abc">>
      [] OTHER -> <<text>>

\* values of --cors-origins, as the pieces that split(",") gives
CorsArgs == {<<"">>, <<"*">>, <<"https://a">>, <<" https://a", " ">>}

\* [o.strip() for o in pieces if o.strip()]
RECURSIVE StripNonBlank(_)
StripNonBlank(pieces) ==
    IF pieces = <<>> THEN <<>>
    ELSE IF Strip(Head(pieces)) = "" THEN StripNonBlank(Tail(pieces))
    ELSE <<Strip(Head(pieces))>> \o StripNonBlank(Tail(pieces))

\* the exit status of a Python process ended by SystemExit(<text>) or by an
\* exception nothing catches
PyExitStatus == 1

\* the process has ended with this status
Exited(status) == [pc |-> "exited", exit |-> Int1(status), cors_allowed_origins |-> <<>>]

\* main(), from the parsed arguments to serve_forever or to the exception
\* that ends the process
MainResult(db_isfile, listen, cors_origins) ==
    IF ~db_isfile THEN Exited(PyExitStatus)
    ELSE IF Len(RsplitColon(listen)) # 2 THEN Exited(PyExitStatus)
    ELSE IF PyInt(RsplitColon(listen)[2]) = NoInt THEN Exited(PyExitStatus)
    ELSE Serving(StripNonBlank(cors_origins))

ApiMain ==
    /\ server.pc = "main"
    /\ \E db_isfile \in BOOLEAN, listen \in ListenArgs, cors_origins \in CorsArgs :
          server' = MainResult(db_isfile, listen, cors_origins)
    /\ UNCHANGED <<indexerVars, api>>

\* values of the Origin header of a request
OriginHeaders == {<<"https://a">>, <<"https://b">>, <<" ">>}

\* the request line and headers of the next request are read: it has an
\* Origin header
ApiRequestHeaders ==
    /\ Accepting
    /\ api.origin = Absent
    /\ \E origin \in OriginHeaders : api' = [api EXCEPT !.origin = origin]
    /\ UNCHANGED <<indexerVars, server>>

ServerNext ==
    \/ ApiMain
    \/ ApiRequestHeaders
    \/ ApiOptions \/ ApiGetStatic \/ ApiGetStatus \/ ApiGetBlocks \/ ApiGetBlock
    \/ ApiCount \/ ApiSelect \/ ApiStatementFails \/ ApiReturn

\* the API process from its launch on
ServerSpec == InitMain /\ [][ServerNext]_vars

(***************************************************************************)
(* Properties                                                              *)
(***************************************************************************)
HasBlock(d, h) == \E b \in d.blocks : b.height = h

\* the checkpoint as an integer (NoInt when absent)
LastIndexed(m) == _meta_get_int(m, "last_indexed_height")

\* an events row without its surrogate id
NoId(e) == [height |-> e.height, tx_hash |-> e.tx_hash, source |-> e.source,
            event_index |-> e.event_index]

\* one Tx row per entry of data.txs
ExpectedTxRows(h, p) ==
    {[tx_hash |-> _tx_hash_hex(p.txs[k + 1]), height |-> h, tx_index |-> k,
      code |-> TxrOf(p, k).code] : k \in 0..(Len(p.txs) - 1)}

\* one Event row per block-level event and per tx event, numbered in write order
ExpectedEventRows(h, p) ==
    {[height |-> h, tx_hash |-> None, source |-> BlockEventSources(p)[k + 1],
      event_index |-> k] : k \in 0..(Len(BlockEventSources(p)) - 1)}
    \cup UNION {{[height |-> h, tx_hash |-> _tx_hash_hex(p.txs[k + 1]), source |-> "tx",
                  event_index |-> Len(BlockEventSources(p)) + SumTxEvents(p, k) + n]
                    : n \in 0..(NumTxEvents(p, k) - 1)} : k \in 0..(Len(p.txs) - 1)}

\* C1: a step taken inside index_height that is not the completed COMMIT leaves
\* the committed blocks, txs and events tables and meta as they were; when it is
\* a failure (the worker is back at the loop) no transaction stays open, the
\* ERROR line is logged and next_height is not advanced.
C1_FailedHeightLeavesNothing ==
    [][(pc \in {"fetch", "begin"} \cup InTry /\ pc' # "meta")
         => /\ db' = db
            /\ meta' = meta
            /\ (pc' = "loop" => /\ wdb' = NoTx
                                /\ log' \in ErrorLines
                                /\ next_height' = next_height)]_vars

\* C1 witness: a statement of the try block has failed for a height that has
\* no committed rows, while another height is committed
C1_Witness ==
    /\ pc = "loop" /\ log = ErrorLine("write")
    /\ wdb = NoTx
    /\ RowsOf(db, next_height) = RowsOf(EmptyDb, next_height)
    /\ db.blocks # {}

\* C2: in every committed state, a height with a Block row has one Tx row per
\* entry of its payload's data.txs and all Event rows derived from the payload;
\* a height without a Block row has no Tx and no Event row.
C2_HeightComplete ==
    \A h \in Heights :
        LET r == RowsOf(db, h)
        IN  IF r.blocks # {}
            THEN \A b \in r.blocks :
                    /\ r.txs = ExpectedTxRows(h, b.payload)
                    /\ {NoId(e) : e \in r.events} = ExpectedEventRows(h, b.payload)
            ELSE r.txs = {} /\ r.events = {}

\* C3: at start-up, when meta already holds a chain id and the /status probe
\* reports another one, the worker stops and nothing is written: meta and the
\* tables are as before the run.
C3_ChainIdGuard ==
    [][(pc = "init" /\ meta.chain_id # None
            /\ chain_id' # None /\ chain_id' # meta.chain_id)
         => (pc' = "idle" /\ meta' = meta /\ db' = db)]_vars

\* C4: meta.last_indexed_height never becomes smaller than a value it held
\* before, in any run, with or without an explicit start height.
C4_CheckpointMonotonic ==
    [][LastIndexed(meta) # NoInt
         => /\ LastIndexed(meta') # NoInt
            /\ LastIndexed(meta')[1] >= LastIndexed(meta)[1]]_vars

\* C5: whenever meta.last_indexed_height = H, a committed Block row of H exists.
C5_CheckpointIsCommitted ==
    LastIndexed(meta) # NoInt => HasBlock(db, LastIndexed(meta)[1])

\* C5 witness: the checkpoint was advanced to height 2 after its commit
C5_Witness ==
    /\ pc = "loop" /\ log = "Indexed height"
    /\ LastIndexed(meta) = Int1(2)
    /\ HasBlock(db, 2)

\* a loop iteration ends in an exception
FailStep == LoopStatusFail \/ FetchFail \/ BeginFail \/ WriteFail \/ MetaFail

\* C6: an error in a loop iteration logs an ERROR line, sleeps the backoff and
\* leaves next_height as it was; inside the loop a next_height >= 1 changes only
\* by one, in the step that follows the commit of next_height and writes the
\* checkpoint (a next_height <= 0 is first set to 1, before any height is tried).
C6_BackoffNeverSkips ==
    [][/\ (FailStep \/ log' \in ErrorLines)
            => /\ log' \in ErrorLines /\ slept' = BackoffSleep
               /\ pc' = "loop"
               /\ next_height' = next_height
       /\ (pc \notin {"idle", "init"} /\ pc' # "idle" /\ next_height' # next_height)
            => \/ /\ pc = "loop" /\ next_height <= 0 /\ next_height' = 1
               \/ /\ pc = "meta" /\ log' = "Indexed height"
                  /\ next_height' = next_height + 1
                  /\ LastIndexed(meta') = Int1(next_height)
                  /\ HasBlock(db', next_height)]_vars

\* C6 witness: the checkpoint write failed after the commit of next_height,
\* and the worker is back at the loop with the same next_height
C6_Witness ==
    /\ pc = "loop" /\ log = ErrorLine("meta") /\ slept = BackoffSleep
    /\ HasBlock(db, next_height)
    /\ LastIndexed(meta) # Int1(next_height)

\* C7: what a reader's query can see changes only in the COMMIT step, and then
\* to the complete result of the height's transaction: no query sees a height
\* partly written.
C7_ReadersSeeWholeHeights ==
    [][ReaderView' # ReaderView
         => /\ pc = "commit"
            /\ ReaderView' = WriteHeight(ReaderView, next_height, Payload)]_vars

\* C7 witness: a reindex of a committed height is in flight, and the rows of
\* the height inside the transaction differ from those a reader sees
C7_Witness ==
    /\ pc \in InTry /\ wdb # NoTx
    /\ HasBlock(ReaderView, next_height)
    /\ RowsOf(Tx, next_height) # RowsOf(ReaderView, next_height)

\* C8: for every height with a Block row, the number of Tx rows of that height
\* equals the row's tx_count.
C8_TxCountMatches ==
    \A b \in db.blocks :
        Cardinality({t \in db.txs : t.height = b.height}) = b.tx_count

\* C9: every Event row with source = tx has a Tx row with the same tx_hash at
\* the event's height.
C9_TxEventHasTxRow ==
    \A e \in db.events :
        e.source = "tx" => \E t \in db.txs : t.tx_hash = e.tx_hash /\ t.height = e.height

\* C10: for every height, the event_index values of its Event rows are exactly
\* 0..n-1, n the number of Event rows of the height.
C10_EventIndexContiguous ==
    \A h \in Heights :
        LET ev == RowsOf(db, h).events
        IN  {e.event_index : e \in ev} = 0..(Cardinality(ev) - 1)

\* C10 witness: a height with at least two events has been reindexed (its rows
\* carry ids above those its first index consumed, and no other height has events)
C10_Witness ==
    \E h \in Heights :
        LET ev == RowsOf(db, h).events
        IN  /\ Cardinality(ev) >= 2
            /\ db.events = ev
            /\ \A e \in ev : e.id > Cardinality(ev)

\* C11: when index_height(H) has just committed, running it again with the same
\* block and block_results payloads leaves every table as it is, the id column
\* of events included.
C11_ReindexIdempotent ==
    pc = "meta" => WriteHeight(db, next_height, Payload) = db

\* C12: a run without a start height that commits a height whose rows are
\* already committed (the restart after a stop between COMMIT and the
\* checkpoint write) leaves the rows of that height equal to those committed
\* before.
C12_RecoveryKeepsRows ==
    [][(pc = "commit" /\ pc' = "meta" /\ start_height = NoInt
            /\ HasBlock(db, next_height))
         => RowsOf(db', next_height) = RowsOf(db, next_height)]_vars

\* C13: no step of index_height(H), committing or rolling back, changes the
\* Block, Tx or Event rows of a height other than H.
C13_OtherHeightsUntouched ==
    [][(pc \in {"fetch", "begin"} \cup InTry)
         => (\A g \in Heights \ {next_height} :
                RowsOf(db', g) = RowsOf(db, g))]_vars

\* the start height as the start-up rule states it, for the current
\* configuration and checkpoint
StatedFirstHeight ==
    IF start_height # NoInt THEN start_height[1]
    ELSE IF LastIndexed(meta) # NoInt THEN LastIndexed(meta)[1] + 1
    ELSE 1

AtLeastOne(n) == IF n < 1 THEN 1 ELSE n

\* C14: the height attempted in the first loop iteration after start-up is the
\* configured start_height when one is set, otherwise the checkpoint + 1 when
\* the checkpoint is an integer, otherwise 1.
C14_FirstHeightAsConfigured ==
    [][(pc = "loop" /\ log = "starting" /\ pc' = "fetch")
         => next_height' = StatedFirstHeight]_vars

\* C14, amended: start-up chooses that height; until a height is attempted the
\* loop changes neither the configuration nor the checkpoint, and next_height
\* only from a value below 1 to 1; and the height attempted is the chosen
\* height raised to 1 when it is below 1.
C14_FirstHeightClamped ==
    [][/\ (pc = "init" /\ pc' = "loop") => next_height' = StatedFirstHeight'
       /\ (pc = "loop" /\ pc' = "loop")
            => /\ AtLeastOne(next_height') = AtLeastOne(next_height)
               /\ StatedFirstHeight' = StatedFirstHeight
       /\ (pc = "loop" /\ pc' = "fetch") => next_height' = AtLeastOne(next_height)
       /\ (pc = "loop" /\ log = "starting" /\ pc' = "fetch")
            => next_height' = AtLeastOne(StatedFirstHeight)]_vars

\* C14 witness: a run configured with start height 0 on a store whose
\* checkpoint is 2 attempts height 1
C14_Witness ==
    /\ pc = "fetch"
    /\ start_height = Int1(0)
    /\ LastIndexed(meta) = Int1(2)
    /\ next_height = 1

\* the positions of the worker inside the processing of next_height
Processing == {"fetch", "begin", "meta"} \cup InTry

\* C15: a height is being processed only while next_height <= latest, the tip
\* of the last successful /status probe; a probe that finds next_height above
\* the tip writes nothing, sleeps the poll interval, at least 0.5 s, and goes
\* back to the loop condition, and otherwise the height is processed; every
\* row that becomes committed is a row of next_height, which is at most the tip.
C15_NeverAheadOfTip ==
    [][/\ pc \in Processing => next_height <= latest
       /\ (pc = "loop" /\ pc' # "idle" /\ stop_event' = stop_event
              /\ log' \notin ErrorLines)
            => IF AtLeastOne(next_height) > latest'
                 THEN /\ pc' = "loop"
                      /\ slept' >= MinPollSleep
                      /\ db' = db /\ wdb' = NoTx /\ meta' = meta
                 ELSE pc' = "fetch" /\ next_height' <= latest'
       /\ \A r \in (db'.blocks \ db.blocks) \cup (db'.txs \ db.txs)
                    \cup (db'.events \ db.events) :
             r.height = next_height /\ r.height <= latest]_vars

\* C15 witness: height 1 is committed, the tip is below next_height, and the
\* worker has slept the shortest poll interval
C15_Witness ==
    /\ pc = "loop" /\ log = "" /\ slept = MinPollSleep
    /\ HasBlock(db, 1)
    /\ next_height = 2 /\ latest < next_height

\* C16: when a statement of the try block raises a constraint violation, the
\* worker stops: it does not go back to the loop to try the height again.
C16_PermanentErrorIsFatal ==
    [][(pc \in InTry /\ log' = ErrorLine("constraint")) => pc' = "idle"]_vars

\* C17: an RPC failure at any point of a run, the /status probe made before the
\* loop included, is logged as an ERROR line and the worker goes on to the next
\* iteration of the loop.
C17_RpcFailureIsRetried ==
    [][(InitFail \/ LoopStatusFail \/ FetchFail)
         => (pc' = "loop" /\ log' \in ErrorLines)]_vars

\* C20: once meta.chain_id holds a value, no step changes it.
C20_ChainIdWrittenOnce ==
    [][meta.chain_id # None => meta'.chain_id = meta.chain_id]_vars

\* C18: once the stop event is set the worker ends; from the loop condition
\* with the event set no height is started; and when the worker has ended no
\* transaction is open, the committed rows of the height that was in flight
\* being either those of its whole transaction or those from before it.
C18_StopEnds ==
    /\ (stop_event /\ Running) ~> (pc = "idle")
    /\ [][/\ (pc = "loop" /\ stop_event) => pc' \in {"loop", "idle"}
          /\ (stop_event /\ db' # db)
               => (pc = "commit" /\ db' = WriteHeight(db, next_height, Payload))
          /\ pc' = "idle" => wdb' = NoTx]_vars

\* C18 witness: the stop event is set while the transaction of a height is open
C18_Witness ==
    /\ stop_event
    /\ pc \in InTry /\ wdb # NoTx /\ Tx # db

\* C19: the checkpoint eventually equals the tip with a Block row for every
\* height up to it, and a height gets its Block row only when every lower
\* height has one.
C19_Converges ==
    /\ <>(/\ LastIndexed(meta) = Int1(MaxHeight)
          /\ \A h \in Heights : HasBlock(db, h))
    /\ [][\A h \in Heights :
             (HasBlock(db', h) /\ ~HasBlock(db, h))
                => \A g \in 1..(h - 1) : HasBlock(db, g)]_vars

\* the hashes of the raw transactions of payload p, in block order
TxHashes(p) == [k \in 1..Len(p.txs) |-> _tx_hash_hex(p.txs[k])]

\* the 0-based position of the last transaction of p with hash x
LastIndexOf(p, x) ==
    CHOOSE k \in 0..(Len(p.txs) - 1) :
        /\ TxHashes(p)[k + 1] = x
        /\ \A n \in (k + 1)..(Len(p.txs) - 1) : TxHashes(p)[n + 1] # x

UniqueHashes(d) == \A t1, t2 \in d.txs : t1.tx_hash = t2.tx_hash => t1 = t2

\* C21: the committed txs table, and the one inside an open transaction, never
\* holds two rows with the same tx_hash; and when index_height(H) commits, the
\* row stored for every hash of H's payload is the one this call wrote: height
\* H, the index and code of the last transaction of the block with that hash.
C21_OneRowPerHash ==
    /\ [](UniqueHashes(db) /\ (wdb # NoTx => UniqueHashes(Tx)))
    /\ [][(pc = "commit" /\ pc' = "meta")
            => \A k \in 1..Len(Payload.txs) :
                  LET x == TxHashes(Payload)[k]
                      n == LastIndexOf(Payload, x)
                  IN  {t \in db'.txs : t.tx_hash = x}
                        = {[tx_hash |-> x, height |-> next_height, tx_index |-> n,
                            code |-> TxrOf(Payload, n).code]}]_vars

\* C21 witness: height 2 has just been committed, after height 1, and a hash
\* carried by both heights is stored with height 2
C21_Witness ==
    /\ pc = "meta" /\ next_height = 2
    /\ HasBlock(db, 1)
    /\ \E t \in db.txs :
          /\ t.height = 2
          /\ \E k \in 1..Len(chain[1].txs) : TxHashes(chain[1])[k] = t.tx_hash

\* the position of an event in the RPC list it came from
ListPosition(e) == PyInt(e.event_type)[1]

\* the place of a source in the fixed bucket order
SourceRank(source) ==
    CASE source = "begin_block" -> 0
      [] source = "end_block" -> 1
      [] source = "finalize_block" -> 2
      [] source = "tx" -> 3

\* C22: for two committed Event rows of one height, the one with the smaller
\* event_index comes from the same or an earlier bucket (begin_block,
\* end_block, finalize_block, tx); within a block-level bucket it is the earlier
\* event of the RPC list; and of two tx events it belongs to an earlier
\* transaction of the block, or to the same one and is earlier in its list.
C22_BucketOrder ==
    \A h \in Heights :
        \A e1, e2 \in RowsOf(db, h).events :
            e1.event_index < e2.event_index
              => /\ SourceRank(e1.source) <= SourceRank(e2.source)
                 /\ (e1.source = e2.source /\ e1.source # "tx")
                      => ListPosition(e1) < ListPosition(e2)
                 /\ (e1.source = "tx" /\ e2.source = "tx")
                      => \E k1, k2 \in 1..Len(chain[h].txs) :
                            /\ TxHashes(chain[h])[k1] = e1.tx_hash
                            /\ TxHashes(chain[h])[k2] = e2.tx_hash
                            /\ \/ k1 < k2
                               \/ k1 = k2 /\ ListPosition(e1) < ListPosition(e2)

\* C22 witness: a committed height holds two events of one block-level bucket,
\* an event of a later block-level bucket and events of two transactions
C22_Witness ==
    \E h \in Heights :
        LET ev == RowsOf(db, h).events
        IN  /\ \E e1, e2 \in ev : e1.source = e2.source /\ e1.source # "tx" /\ e1.id # e2.id
            /\ \E e1, e2 \in ev : SourceRank(e1.source) < SourceRank(e2.source)
                                    /\ SourceRank(e2.source) < 3
            /\ \E e1, e2 \in ev : e1.source = "tx" /\ e2.source = "tx"
                                    /\ e1.tx_hash # e2.tx_hash

\* the stored events of height h, as GET /v1/events?height=h&order=asc lists them
EventsById(d, h) == SelectEvents(d, "ASC", Cardinality(d.events) + 1, 0, <<h>>, None, None, None)

\* C23: in every committed state, two Event rows of one height are in the same
\* order by id as by event_index, so that the events of a height listed in id
\* order come out in event_index order
C23_IdOrderIsEventIndexOrder ==
    \A h \in Heights :
       /\ \A e1, e2 \in db.events :
             (e1.height = h /\ e2.height = h) =>
                (e1.id < e2.id <=> e1.event_index < e2.event_index)
       /\ LET rows == EventsById(db, h)
          IN  \A k1, k2 \in 1..Len(rows) :
                 k1 < k2 => rows[k1].event_index < rows[k2].event_index

\* the events of a height, from two buckets, stored with ids that are not their
\* event_index plus one, beside the events of another height
C23_Witness ==
    \E h \in Heights :
       /\ Len(EventsById(db, h)) >= 2
       /\ \E e1, e2 \in db.events :
             e1.height = h /\ e2.height = h /\ e1.source # e2.source
       /\ \E e \in db.events : e.height = h /\ e.id # e.event_index + 1
       /\ \E e \in db.events : e.height # h

\* the steps of the API handler that run a statement on its connection
RunsStatement == api.pc \in {"count", "select"} /\ api' # api

\* C24: no step of the read API, whatever the path, the query or the method,
\* changes the database, and a connection is in query-only mode before a
\* statement runs on it
C24_ReadOnly ==
    [][/\ (api' # api) => UNCHANGED <<db, meta, wdb>>
       /\ RunsStatement => api.query_only]_vars

\* a row SELECT about to run on a query-only connection over a store with events
C24_Witness ==
    /\ api.pc = "select"
    /\ api.route = "/v1/events"
    /\ api.query_only
    /\ db.events # {}

\* the list endpoints, their bounds and defaults as the API documents them
ListRoutes == {"/v1/blocks", "/v1/txs", "/v1/events"}
LimitBounds(route) == IF route = "/v1/blocks" THEN 1..200 ELSE 1..500
DefaultLimit(route) == IF route = "/v1/blocks" THEN 20 ELSE 50
DefaultOrder(route) == IF route = "/v1/events" THEN "ASC" ELSE "DESC"

\* a list request whose parameters have been parsed
ListRequest == api.route \in ListRoutes /\ api.pc \in {"count", "select", "sent"}

\* a list request has been answered without an error, with the effective
\* limit and offset in its envelope
AnsweredAsParsed ==
    api.pc = "sent" =>
       api.resp.status = 200 /\ api.resp.limit = api.limit /\ api.resp.offset = api.offset

\* parameter values that are absent, blank or not a number
NotNumbers == {Absent, <<" ">>, <<"abc">>}

\* C25: on every list endpoint and for every limit and offset, the effective
\* limit is within the endpoint's bounds and the effective offset is not
\* negative; an absent, blank or non-numeric value gives the endpoint default,
\* and the response is never an error
C25_LimitOffsetInBounds ==
    ListRequest =>
       /\ api.limit \in LimitBounds(api.route)
       /\ api.offset >= 0
       /\ api.q.limit \in NotNumbers => api.limit = DefaultLimit(api.route)
       /\ api.q.offset \in NotNumbers => api.offset = 0
       /\ AnsweredAsParsed

\* /v1/blocks?limit=10000&offset=abc answered with limit 200 and offset 0
C25_Witness ==
    /\ api.pc = "sent"
    /\ api.route = "/v1/blocks"
    /\ api.q.limit = <<"10000">>
    /\ api.q.offset = <<"abc">>
    /\ api.resp.status = 200
    /\ api.resp.limit = 200
    /\ api.resp.offset = 0

\* parameter values that are negative numbers
Negatives == {<<"-5">>, <<"-1">>}

\* C26 as stated: a negative limit or offset gives the endpoint default
\* (limit=-5 on /v1/blocks gives 20, offset=-1 gives 0), without an error
C26_NegativeGivesDefault ==
    ListRequest =>
       /\ api.q.limit \in Negatives => api.limit = DefaultLimit(api.route)
       /\ api.q.offset \in Negatives => api.offset = 0
       /\ (api.q.limit \in Negatives \/ api.q.offset \in Negatives) => AnsweredAsParsed

\* C26: a negative limit is raised to the endpoint minimum 1 and a negative
\* offset to 0, without an error
C26_NegativeIsClamped ==
    ListRequest =>
       /\ api.q.limit \in Negatives => api.limit = 1
       /\ api.q.offset \in Negatives => api.offset = 0
       /\ (api.q.limit \in Negatives \/ api.q.offset \in Negatives) => AnsweredAsParsed

\* /v1/blocks?limit=-5&offset=-1 answered with limit 1 and offset 0
C26_Witness ==
    /\ api.pc = "sent"
    /\ api.route = "/v1/blocks"
    /\ api.q.limit = <<"-5">>
    /\ api.q.offset = <<"-1">>
    /\ api.resp.status = 200
    /\ api.resp.limit = 1
    /\ api.resp.offset = 0

\* the spellings of asc and of desc
AscForms == {<<"asc">>, <<"ASC">>, <<"Asc">>}
DescForms == {<<"desc">>, <<"DESC">>}

\* C27: order is asc or desc in any letter case; any other value, or none,
\* selects the endpoint default (desc for /v1/blocks and /v1/txs, asc for
\* /v1/events), and the response is never an error
C27_OrderParameter ==
    ListRequest =>
       /\ api.order_sql = CASE api.q.order \in AscForms -> "ASC"
                            [] api.q.order \in DescForms -> "DESC"
                            [] OTHER -> DefaultOrder(api.route)
       /\ api.pc = "sent" => api.resp.status = 200

\* /v1/blocks?order=ASC answered in ascending order
C27_Witness ==
    /\ api.pc = "sent"
    /\ api.route = "/v1/blocks"
    /\ api.q.order = <<"ASC">>
    /\ api.order_sql = "ASC"
    /\ api.resp.status = 200

\* the items of an answered /v1/txs request
TxItems == api.resp.items

\* C28: /v1/txs with order=desc, which is the default, lists the
\* transactions by height descending and, within a height, by tx_index
\* ascending
C28_TxsDescending ==
    (api.pc = "sent" /\ api.route = "/v1/txs" /\ api.q.order \in DescForms \cup {Absent}) =>
       \A k1, k2 \in 1..Len(TxItems) :
          k1 < k2 =>
             \/ TxItems[k1].height > TxItems[k2].height
             \/ /\ TxItems[k1].height = TxItems[k2].height
                /\ TxItems[k1].tx_index < TxItems[k2].tx_index

\* a default-order answer that lists two transactions of one height and a
\* transaction of another
C28_Witness ==
    /\ api.pc = "sent"
    /\ api.route = "/v1/txs"
    /\ api.q.order = Absent
    /\ Len(TxItems) >= 3
    /\ \E k1, k2 \in 1..Len(TxItems) :
          k1 # k2 /\ TxItems[k1].height = TxItems[k2].height
    /\ \E k1, k2 \in 1..Len(TxItems) : TxItems[k1].height # TxItems[k2].height

BlocksBefore(h) ==
    Cardinality({b \in db.blocks : IF api.q.order \in AscForms THEN b.height < h
                                   ELSE b.height > h})

\* the heights on a page of blocks
PageHeights(items) == {items[k].height : k \in 1..Len(items)}

\* the page that follows the one being served, read from the same store
NextPage == SelectBlocks(db, api.order_sql, api.limit, api.offset + api.limit)

\* the response to a /v1/blocks request is sent, the count having seen the
\* blocks now stored
BlocksAnswered ==
    /\ api.pc = "select"
    /\ api.route = "/v1/blocks"
    /\ api'.pc = "sent"
    /\ api.total = Cardinality(db.blocks)

\* C30: /v1/blocks on a store of N blocks that does not change while the
\* request is served reports total = N and, as items, positions offset to
\* offset + limit - 1 of the blocks sorted by height in the requested order:
\* min(limit, max(0, N - offset)) of them, and the next page starts where
\* this one ends
C30_BlocksPage ==
    [][BlocksAnswered =>
         LET N == Cardinality(db.blocks)
             items == api'.resp.items
         IN  /\ api'.resp.total = N
             /\ Len(items) = Min(api.limit, Max(0, N - api.offset))
             /\ \A k \in 1..Len(items) :
                   /\ \E b \in db.blocks : BlockItem(b) = items[k]
                   /\ BlocksBefore(items[k].height) = api.offset + k - 1
             /\ PageHeights(items) \cap PageHeights(NextPage) = {}
             /\ \A b \in db.blocks :
                   (/\ BlocksBefore(b.height) >= api.offset
                    /\ BlocksBefore(b.height) < api.offset + 2 * api.limit)
                      => b.height \in PageHeights(items) \cup PageHeights(NextPage)]_vars

\* the second one-block page of a store of two blocks, in ascending order
C30_Witness ==
    /\ api.pc = "sent"
    /\ api.route = "/v1/blocks"
    /\ api.q.limit = <<"1">>
    /\ api.q.offset = <<"1">>
    /\ api.q.order = <<"asc">>
    /\ api.resp.total = 2
    /\ Len(api.resp.items) = 1
    /\ api.resp.items[1].height = 2

\* the names of the CORS headers
CorsHeaderNames ==
    {"Access-Control-Allow-Origin", "Vary", "Access-Control-Allow-Methods",
     "Access-Control-Allow-Headers"}

\* the names of the headers of the response sent
SentHeaderNames == {hd[1] : hd \in api.resp.headers}

\* the request being answered carries an Origin that the allowlist admits
OriginAllowed ==
    LET allowed == {server.cors_allowed_origins[k] :
                       k \in 1..Len(server.cors_allowed_origins)}
    IN  /\ api.origin \in {<<"https://a">>, <<"https://b">>}
        /\ ("*" \in allowed \/ api.origin[1] \in allowed)

\* C31: an OPTIONS request is answered 204; a response carries the four
\* CORS headers when the allowlist is not empty, the request has an Origin and
\* the allowlist holds that origin or "*", and no CORS header otherwise
C31_CorsPolicy ==
    api.pc = "sent" =>
       /\ api.route = "OPTIONS" => api.resp.status = 204
       /\ OriginAllowed => SentHeaderNames = CorsHeaderNames
       /\ ~OriginAllowed => SentHeaderNames \cap CorsHeaderNames = {}

\* a preflight from an origin outside the allowlist answered 204 without
\* CORS headers, the allowlist not being empty
C31_Witness ==
    /\ api.pc = "sent"
    /\ api.route = "OPTIONS"
    /\ api.origin = <<"https://b">>
    /\ server.cors_allowed_origins = <<"https://a">>
    /\ api.resp.status = 204
    /\ api.resp.headers = {}

\* a GET from an allowed origin answered with the CORS headers
C31_WitnessAllowed ==
    /\ api.pc = "sent"
    /\ api.route = "/v1/blocks"
    /\ api.origin = <<"https://a">>
    /\ <<"Access-Control-Allow-Origin", "https://a">> \in api.resp.headers

\* the height segments that are integers
IntegerSegments == {"-1"} \cup {ToString(h) : h \in Heights}

\* a /v1/blocks/{height} request is answered in this step
BlockAnswered == api.pc \in {"idle", "select"} /\ api'.pc = "sent" /\ api'.route = "/v1/blocks/"

\* C32: GET /v1/blocks/{height} answers 400 with an error object when the
\* segment is not an integer, 404 with the error "not found" when no Block row
\* has that height, and 200 otherwise, with block_json and results_json in the
\* body exactly when include_raw is 1, true or yes
C32_BlockByHeight ==
    [][BlockAnswered =>
         LET r == api'.resp
             segment == api'.arg
         IN  IF segment \notin IntegerSegments
               THEN r.status = 400 /\ "error" \in DOMAIN r
             ELSE IF \A b \in db.blocks : ToString(b.height) # segment
               THEN r.status = 404 /\ r.error = "not found"
             ELSE /\ r.status = 200
                  /\ ToString(r.row.height) = segment
                  /\ IF api'.q.include_raw \in {<<"1">>, <<"true">>, <<"yes">>}
                       THEN {"block_json", "results_json"} \subseteq r.keys
                       ELSE {"block_json", "results_json"} \cap r.keys = {}]_vars

\* a stored block answered with its raw payloads
C32_Witness ==
    /\ api.pc = "sent"
    /\ api.route = "/v1/blocks/"
    /\ api.q.include_raw = <<"yes">>
    /\ api.resp.status = 200
    /\ "block_json" \in api.resp.keys

\* C33: an exception raised while a request is handled is answered with a
\* 400 or 500 response
C33_ExceptionsAnswered == api.pc = "raised" => api.resp.status \in {400, 500}

\* the code the RPC reports for entry k (0-based) of data.txs, NoInt when
\* txs_results has no such entry or the entry has no code
ReportedCode(p, k) == IF k < Len(p.results) THEN p.results[k + 1].code ELSE NoInt

\* the INSERT OR REPLACE INTO txs of entry i has run
TxWritten == pc = "tx_ins" /\ wdb' # NoTx /\ wdb' # wdb

\* C34: the Block row of a height has tx_count = the length of the payload's
\* data.txs, whatever the length of txs_results; every entry of data.txs gets
\* its INSERT, and the row written for an entry holds the code the RPC
\* reports, null (never zero) when there is no matching txs_results entry or
\* no code in it
C34_TxCountAndNulls ==
    /\ [](/\ \A b \in db.blocks : b.tx_count = Len(chain[b.height].txs)
          /\ (pc = "commit" /\ Len(Payload.txs) > 0) => i = Len(Payload.txs))
    /\ [][TxWritten =>
            /\ i < Len(Payload.txs)
            /\ \E t \in wdb'[1].txs :
                  /\ t.tx_hash = _tx_hash_hex(Payload.txs[i + 1])
                  /\ t.height = next_height
                  /\ t.tx_index = i
                  /\ t.code = ReportedCode(Payload, i)
                  /\ ReportedCode(Payload, i) = NoInt => t.code # Int1(0)
            /\ (pc' \notin {"tx_ins", "tx_ev"}) => i' = Len(Payload.txs)]_vars

\* a transaction beyond the end of txs_results has been written with a null
\* code, under a Block row that counts both transactions
C34_Witness ==
    /\ wdb # NoTx
    /\ \E b \in Tx.blocks :
          /\ b.height = next_height
          /\ b.tx_count = 2
          /\ Len(chain[b.height].results) = 1
    /\ \E t \in Tx.txs :
          t.height = next_height /\ t.tx_index = 1 /\ t.code = NoInt

\* C35: the API process that finds no database file at --db, or a --listen
\* that is not host:port, exits with code 2
C35_MisconfigurationExitsWith2 == server.pc = "exited" => server.exit = Int1(2)

\* the heights of the rows of tables d
RowHeights(d) == {r.height : r \in d.blocks \cup d.txs} \cup {e.height : e \in d.events}

\* C36: no Block, Tx or Event row has a height below 1, committed or inside
\* the open transaction, and whatever the configured start height, zero and
\* negative values included, the height handed to index_height is at least 1
C36_HeightsArePositive ==
    /\ \A h \in RowHeights(db) : h >= 1
    /\ wdb # NoTx => \A h \in RowHeights(Tx) : h >= 1
    /\ pc \in Processing => next_height >= 1

\* a run configured with start height -1 has committed height 1
C36_Witness ==
    /\ pc = "meta"
    /\ start_height = Int1(0 - 1)
    /\ next_height = 1
    /\ HasBlock(db, 1)

\* the checkpoint, 0 when meta holds none
Checkpoint == IF LastIndexed(meta) = NoInt THEN 0 ELSE LastIndexed(meta)[1]

\* C37: on a store created empty whose runs never had a start height, every
\* height from 1 to the checkpoint has a Block row, and no Block row is more
\* than one height above the checkpoint
C37_NoGapsBelowCheckpoint ==
    /\ \A h \in 1..Checkpoint : HasBlock(db, h)
    /\ \A b \in db.blocks : b.height <= Checkpoint + 1

\* height 2 is committed and the checkpoint is still 1
C37_Witness ==
    /\ pc = "meta"
    /\ next_height = 2
    /\ Checkpoint = 1
    /\ HasBlock(db, 1) /\ HasBlock(db, 2)

\* the number of rows of store d that match the filters of the list request
\* being served
Matching(d) ==
    CASE api.route = "/v1/blocks" -> CountBlocks(d)
      [] api.route = "/v1/txs" -> CountTxs(d, api.height)
      [] api.route = "/v1/events" ->
           CountEvents(d, api.height, api.tx_hash, api.event_type, api.source)

\* C38: in the response of a list request, total is the number of rows that
\* match the filters in the store from which items was read, also when the
\* indexer committed a height between the COUNT and the page query
C38_TotalFromItemsSnapshot ==
    [][(api.pc = "select" /\ api.route \in ListRoutes /\ api'.pc = "sent")
          => api'.resp.total = Matching(db)]_vars

\* C39: Reset DB renames the database file and removes its sidecars only when
\* no indexer worker thread is alive
C39_ResetStopsIndexerFirst == [][ResetDb => pc = "idle"]_vars

====
